---- MODULE Spec2Model ----
(***************************************************************************)
(* A model of githubmcp.py: a FastAPI gateway that resolves a GitHub token *)
(* per inbound request and forwards one or two calls to the GitHub REST    *)
(* API.  Each inbound request occupies a slot; a slot's handler blocks in  *)
(* requests.request while the handlers of the other slots run.             *)
(***************************************************************************)
EXTENDS Integers, Sequences, FiniteSets, TLC

VARIABLES
    env,      \* os.environ.get("GITHUB_TOKEN"): process-wide, never written
    pc,       \* per slot: idle, routed, ready, in_gh_request, done
    req,      \* per slot: the inbound request (operation, header, parameters)
    token,    \* per slot: the handler's `token` parameter
    calls,    \* per slot: the upstream calls issued so far, in order
    resps,    \* per slot: the upstream responses received so far, in order
    result    \* per slot: what the caller receives

vars == <<env, pc, req, token, calls, resps, result>>

----------------------------------------------------------------------------
(* Bounds *)

\* Number of segments an Authorization header value is assembled from.
MaxSegs == 3

\* Number of inbound requests handled at the same time in SpecConc.
MaxConcurrent == 2

----------------------------------------------------------------------------
(* Python values.  Credential strings are sequences of characters (they    *)
(* are split and lower-cased); all other strings are TLA+ strings.         *)

PyNone == [t |-> "None"]
PyStr(s) == [t |-> "str", s |-> s]
PyBool(b) == [t |-> "bool", b |-> b]
PyDict(d) == [t |-> "dict", d |-> d]
PyList == [t |-> "list"]
EmptyDict == [k \in {} |-> PyNone]

\* Python truthiness, as used by `if authorization`, `not token`,
\* `not base_sha`, `payload.body or ""` and `if ref`.
Truthy(v) ==
    CASE v.t = "None" -> FALSE
      [] v.t = "str"  -> Len(v.s) > 0
      [] v.t = "bool" -> v.b
      [] v.t = "dict" -> DOMAIN v.d # {}
      [] OTHER        -> FALSE

\* dict.get(k, default); on a value that is no dict the attribute lookup
\* raises AttributeError.
PyGet(v, k, default) ==
    IF v.t = "dict"
    THEN [ok |-> TRUE, val |-> IF k \in DOMAIN v.d THEN v.d[k] ELSE default]
    ELSE [ok |-> FALSE, val |-> PyNone]

HTTPException(status_code, detail) ==
    [kind |-> "HTTPException", status_code |-> status_code, detail |-> detail]

\* An exception that is no HTTPException leaves the handler unhandled.
Unhandled(exc) == [kind |-> "unhandled", exc |-> exc]

----------------------------------------------------------------------------
(* get_token *)

Whitespace == {" ", "\t"}

\* str.lower() on the characters the model draws headers from.
LowerChar(c) ==
    CASE c = "B" -> "b"
      [] c = "E" -> "e"
      [] c = "A" -> "a"
      [] c = "R" -> "r"
      [] OTHER   -> c

lower(s) == [i \in 1..Len(s) |-> LowerChar(s[i])]

RECURSIVE SplitFrom(_, _, _, _)
SplitFrom(s, i, cur, acc) ==
    IF i > Len(s)
    THEN IF cur = <<>> THEN acc ELSE Append(acc, cur)
    ELSE IF s[i] \in Whitespace
         THEN SplitFrom(s, i + 1, <<>>, IF cur = <<>> THEN acc ELSE Append(acc, cur))
         ELSE SplitFrom(s, i + 1, Append(cur, s[i]), acc)

\* str.split() without arguments: the maximal runs of non-whitespace.
split(s) == SplitFrom(s, 1, <<>>, <<>>)

bearer == <<"b", "e", "a", "r", "e", "r">>

Unauthorized == 401

TokenMissingDetail ==
    "GitHub token not provided via Authorization header or GITHUB_TOKEN env var"

\* Mutant of get_token: the scheme is compared without lower().
get_token_case_sensitive(authorization, environ) ==
    IF Truthy(authorization)
    THEN LET parts == split(authorization.s)
         IN  IF Len(parts) = 2 /\ parts[1] = <<"B", "e", "a", "r", "e", "r">>
             THEN [ok |-> TRUE, token |-> parts[2]]
             ELSE [ok |-> TRUE, token |-> authorization.s]
    ELSE IF ~Truthy(environ)
         THEN [ok |-> FALSE,
               exc |-> HTTPException(Unauthorized, PyStr(TokenMissingDetail))]
         ELSE [ok |-> TRUE, token |-> environ.s]

get_token(authorization, environ) ==
    IF Truthy(authorization)
    THEN LET parts == split(authorization.s)
         IN  IF Len(parts) = 2 /\ lower(parts[1]) = bearer
             THEN [ok |-> TRUE, token |-> parts[2]]
             ELSE [ok |-> TRUE, token |-> authorization.s]
    ELSE IF ~Truthy(environ)
         THEN [ok |-> FALSE,
               exc |-> HTTPException(Unauthorized, PyStr(TokenMissingDetail))]
         ELSE [ok |-> TRUE, token |-> environ.s]

----------------------------------------------------------------------------
(* gh_request *)

GITHUB_API_BASE == "https://api.github.com"

BearerPrefix == <<"B", "e", "a", "r", "e", "r", " ">>

ErrorFloor == 400

\* The call gh_request hands to requests.request.
UpstreamCall(method, path, tok, json, params) ==
    [method  |-> method,
     url     |-> GITHUB_API_BASE \o path,
     headers |-> [Authorization |-> BearerPrefix \o tok,
                  Accept        |-> "application/vnd.github.v3+json"],
     json    |-> json,
     params  |-> params]

\* resp.json(): the parsed body, or ValueError when the body is no JSON.
resp_json(resp) ==
    IF resp.body.json
    THEN [ok |-> TRUE, val |-> resp.body.val]
    ELSE [ok |-> FALSE, val |-> PyNone]

StatusOk == PyDict([status |-> PyStr("ok")])

\* Mutant of gh_request_result: every upstream error is raised as a 502.
gh_request_result_bad_gateway(resp) ==
    IF resp.status_code >= ErrorFloor
    THEN [raised |-> TRUE,
          exc    |-> HTTPException(502,
                        IF resp_json(resp).ok
                        THEN resp_json(resp).val
                        ELSE PyDict([message |-> PyStr(resp.body.text)]))]
    ELSE [raised |-> FALSE,
          value  |-> IF resp_json(resp).ok THEN resp_json(resp).val ELSE StatusOk]

\* Mutant of gh_request_result: the status is not looked at.
gh_request_result_lenient(resp) ==
    [raised |-> FALSE,
     value  |-> IF resp_json(resp).ok THEN resp_json(resp).val ELSE StatusOk]

\* Mutant of gh_request_result: a success without JSON body is an error.
gh_request_result_no_marker(resp) ==
    IF resp.status_code >= ErrorFloor \/ ~resp_json(resp).ok
    THEN [raised |-> TRUE,
          exc    |-> HTTPException(IF resp.status_code >= ErrorFloor
                                   THEN resp.status_code ELSE 500,
                        IF resp_json(resp).ok
                        THEN resp_json(resp).val
                        ELSE PyDict([message |-> PyStr(resp.body.text)]))]
    ELSE [raised |-> FALSE, value |-> resp_json(resp).val]

\* What gh_request does with the response: raise or return.
gh_request_result(resp) ==
    IF resp.status_code >= ErrorFloor
    THEN [raised |-> TRUE,
          exc    |-> HTTPException(resp.status_code,
                        IF resp_json(resp).ok
                        THEN resp_json(resp).val
                        ELSE PyDict([message |-> PyStr(resp.body.text)]))]
    ELSE [raised |-> FALSE,
          value  |-> IF resp_json(resp).ok THEN resp_json(resp).val ELSE StatusOk]

----------------------------------------------------------------------------
(* Handler pieces *)

InternalError == 500

OkStatus == 200

\* A handler's return value, sent with the route's default status.
Response(value) == [kind |-> "response", status_code |-> OkStatus, body |-> value]

NoResult == [kind |-> "none"]

\* Mutant of Returned: an upstream error is answered like a success.
Returned_swallowed(g) == Response(IF g.raised THEN g.exc.detail ELSE g.value)

\* What the caller receives when a handler returns gh_request(...).
Returned(g) == IF g.raised THEN g.exc ELSE Response(g.value)

MCP_MANIFEST ==
    PyDict([name          |-> PyStr("local-github-mcp"),
            version       |-> PyStr("0.1.0"),
            description   |-> PyStr("Local GitHub MCP providing repo operations for Copilot / VS Code"),
            modes         |-> PyList,
            schemaVersion |-> PyStr("1.0.0")])

RepoPath(rq) == "/repos/" \o rq.owner \o "/" \o rq.repo

\* Mutant of handler_token: the token is kept in one place for all slots.
handler_token_shared(r) == IF token[1] # <<>> THEN token[1] ELSE token[r]

\* The `token` parameter of the handler running in slot r.
handler_token(r) == token[r]

base_path(rq) == RepoPath(rq) \o "/git/ref/heads/" \o rq.payload.base_branch.s

ref_path(rq) == RepoPath(rq) \o "/git/refs"

\* Mutant of new_ref: the ref is named after the base branch.
new_ref_of_base(payload, base_sha) ==
    PyDict([ref |-> PyStr("refs/heads/" \o payload.base_branch.s), sha |-> base_sha])

new_ref(payload, base_sha) ==
    PyDict([ref |-> PyStr("refs/heads/" \o payload.new_branch.s), sha |-> base_sha])

\* Mutant of create_branch_resolve: base_sha is not tested.
create_branch_resolve_unchecked(payload, base_ref) ==
    LET obj == PyGet(base_ref, "object", PyDict(EmptyDict))
        sha == IF obj.ok THEN PyGet(obj.val, "sha", PyNone) ELSE obj
    IN  IF ~obj.ok \/ ~sha.ok
        THEN [done |-> TRUE, result |-> Unhandled("AttributeError")]
        ELSE [done |-> FALSE, json |-> new_ref(payload, sha.val)]

SHA_MISSING == "Could not resolve base branch SHA"

\* create_branch between its two gh_request calls: base_ref is the value
\* the first call returned.  Either the handler ends (done) or it goes on
\* to POST new_ref.
create_branch_resolve(payload, base_ref) ==
    LET obj == PyGet(base_ref, "object", PyDict(EmptyDict))
        sha == IF obj.ok THEN PyGet(obj.val, "sha", PyNone) ELSE obj
    IN  IF ~obj.ok \/ ~sha.ok
        THEN [done |-> TRUE, result |-> Unhandled("AttributeError")]
        ELSE IF ~Truthy(sha.val)
             THEN [done |-> TRUE,
                   result |-> HTTPException(InternalError, PyStr(SHA_MISSING))]
             ELSE [done |-> FALSE, json |-> new_ref(payload, sha.val)]

list_prs_params(state) == PyDict([state |-> state])

create_pr_body(payload) ==
    PyDict([title |-> payload.title, head |-> payload.head, base |-> payload.base,
            body |-> payload.body, draft |-> payload.draft])

review_pr_body(payload) ==
    PyDict([body  |-> IF Truthy(payload.body) THEN payload.body ELSE PyStr(""),
            event |-> payload.event])

merge_pr_body(payload) ==
    PyDict([commit_title   |-> payload.commit_title,
            commit_message |-> payload.commit_message,
            merge_method   |-> payload.merge_method])

\* Mutant of get_contents_params: ref is tested against None only.
get_contents_params_not_none(ref) == IF ref # PyNone THEN PyDict([ref |-> ref]) ELSE PyNone

get_contents_params(ref) == IF Truthy(ref) THEN PyDict([ref |-> ref]) ELSE PyNone

PullPath(rq) == RepoPath(rq) \o "/pulls/" \o ToString(rq.pr_number)

NoAuthOps == {"mcp_manifest", "health", "root"}

----------------------------------------------------------------------------
(* Inputs *)

Tok1 == <<"t", "1">>
Tok2 == <<"t", "2">>
EnvTok == <<"e", "1">>

\* The pieces Authorization header values are assembled from.
Segments ==
    { <<" ">>, <<"\t">>,
      <<"B", "e", "a", "r", "e", "r">>, <<"b", "E", "A", "R", "E", "R">>,
      <<"b", "e", "a", "r">>, Tok1, <<"x">> }

RECURSIVE HeaderStrings(_)
HeaderStrings(n) ==
    IF n = 0 THEN {<<>>}
    ELSE LET shorter == HeaderStrings(n - 1)
         IN  shorter \cup {h \o g : h \in shorter, g \in Segments}

\* Authorization header values of the credential specification.
TokenHeaders == {PyNone} \cup {PyStr(h) : h \in HeaderStrings(MaxSegs)}

EnvValues == {PyNone, PyStr(<<>>), PyStr(EnvTok)}

BearerTok1 == <<"B", "e", "a", "r", "e", "r", " ", "t", "1">>

Statuses == {200, 201, 404}

JsonBody(v) == [json |-> TRUE, val |-> v]
TextBody(text) == [json |-> FALSE, text |-> text]

RefBody(sha) == JsonBody(PyDict([object |-> PyDict([sha |-> sha])]))

Bodies ==
    { TextBody(""), TextBody("Not Found"),
      JsonBody(PyDict(EmptyDict)),
      JsonBody(PyDict([message |-> PyStr("Not Found")])),
      JsonBody(PyDict([object |-> PyNone])),
      JsonBody(PyDict([object |-> PyDict(EmptyDict)])),
      JsonBody(PyList),
      RefBody(PyNone), RefBody(PyStr("")),
      RefBody(PyStr("abc123")), RefBody(PyStr("def456")) }

UpstreamResponses(statuses, bodies) ==
    {[status_code |-> st, body |-> b] : st \in statuses, b \in bodies}

\* The inbound requests over the given headers and parameter values.
Requests(I) ==
    LET Repo(op, h) == [op |-> op, authorization |-> h, owner |-> "acme", repo |-> "widget"]
    IN  {[op |-> op] : op \in {"mcp_manifest", "health"}}
        \cup {[op |-> "root", base_url |-> "http://localhost:8000/"]}
        \cup {Repo("list_branches", h) : h \in I.headers}
        \cup {Repo("create_branch", h) @@ [payload |-> p]
                : h \in I.headers,
                  p \in {[new_branch |-> PyStr(n), base_branch |-> PyStr(b)]
                            : n \in I.new_branches, b \in I.base_branches}}
        \cup {Repo("list_prs", h) @@ [state |-> PyStr(st)]
                : h \in I.headers, st \in I.states}
        \cup {Repo("create_pr", h) @@ [payload |-> p]
                : h \in I.headers,
                  p \in {[head |-> PyStr("feature-x"), base |-> PyStr("main"),
                          title |-> PyStr("Add x"), body |-> b, draft |-> PyBool(FALSE)]
                            : b \in I.texts}}
        \cup {Repo("get_pr", h) @@ [pr_number |-> n]
                : h \in I.headers, n \in I.pr_numbers}
        \cup {Repo("review_pr", h) @@ [pr_number |-> n, payload |-> p]
                : h \in I.headers, n \in I.pr_numbers,
                  p \in {[body |-> b, event |-> PyStr("COMMENT")] : b \in I.texts}}
        \cup {Repo("merge_pr", h) @@ [pr_number |-> n, payload |-> p]
                : h \in I.headers, n \in I.pr_numbers,
                  p \in {[commit_title |-> PyNone, commit_message |-> b,
                          merge_method |-> PyStr("merge")] : b \in I.texts}}
        \cup {Repo("get_contents", h) @@ [path |-> "src/app.py", ref |-> rf]
                : h \in I.headers, rf \in I.refs}

\* Inputs of the one-request specification.
FullInputs ==
    [headers       |-> {PyNone, PyStr(<<>>), PyStr(BearerTok1), PyStr(Tok2)},
     new_branches  |-> {"feature-x", "fix"},
     base_branches |-> {"main", "dev"},
     states        |-> {"open", "closed"},
     texts         |-> {PyNone, PyStr("lgtm")},
     pr_numbers    |-> {7},
     refs          |-> {PyNone, PyStr(""), PyStr("dev")},
     responses     |-> UpstreamResponses(Statuses, Bodies)]

\* Inputs of the concurrent specification.
ConcInputs ==
    [headers       |-> {PyNone, PyStr(BearerTok1)},
     new_branches  |-> {"feature-x"},
     base_branches |-> {"main"},
     states        |-> {"open"},
     texts         |-> {PyNone},
     pr_numbers    |-> {7},
     refs          |-> {PyStr("dev")},
     responses     |-> {[status_code |-> 201, body |-> RefBody(PyStr("abc123"))],
                        [status_code |-> 404, body |-> TextBody("Not Found")]}]

----------------------------------------------------------------------------
(* Actions *)

Slots == DOMAIN pc

\* The slot of the one-request specifications, and those of SpecConc.
OneSlot == {1}
ConcSlots == 1..MaxConcurrent

\* An inbound request arrives and is routed to its handler.
receive(r, I) ==
    /\ pc[r] = "idle"
    /\ \E q \in Requests(I) : req' = [req EXCEPT ![r] = q]
    /\ pc' = [pc EXCEPT ![r] = "routed"]
    /\ UNCHANGED <<env, token, calls, resps, result>>

\* Depends(get_token): the handler runs only with a resolved token.
depends_get_token(r) ==
    /\ pc[r] = "routed"
    /\ req[r].op \notin NoAuthOps
    /\ LET t == get_token(req[r].authorization, env)
       IN  IF t.ok
           THEN /\ token' = [token EXCEPT ![r] = t.token]
                /\ pc' = [pc EXCEPT ![r] = "ready"]
                /\ UNCHANGED result
           ELSE /\ result' = [result EXCEPT ![r] = t.exc]
                /\ pc' = [pc EXCEPT ![r] = "done"]
                /\ UNCHANGED token
    /\ UNCHANGED <<env, req, calls, resps>>

\* A handler without upstream call returns its value.
Return(r, value) ==
    /\ result' = [result EXCEPT ![r] = Response(value)]
    /\ pc' = [pc EXCEPT ![r] = "done"]
    /\ UNCHANGED <<env, req, token, calls, resps>>

mcp_manifest(r) ==
    /\ pc[r] = "routed" /\ req[r].op = "mcp_manifest"
    /\ Return(r, MCP_MANIFEST)

health(r) ==
    /\ pc[r] = "routed" /\ req[r].op = "health"
    /\ Return(r, StatusOk)

root(r) ==
    /\ pc[r] = "routed" /\ req[r].op = "root"
    /\ Return(r, PyDict([message      |-> PyStr("FastAPI GitHub MCP Server"),
                         mcp_manifest |-> PyStr(req[r].base_url \o "mcp"),
                         health       |-> PyStr(req[r].base_url \o "health")]))

\* gh_request up to requests.request: the call leaves and the handler blocks.
gh_request(r, method, path, json, params) ==
    /\ calls' = [calls EXCEPT ![r] =
                    Append(@, UpstreamCall(method, path, handler_token(r), json, params))]
    /\ pc' = [pc EXCEPT ![r] = "in_gh_request"]
    /\ UNCHANGED <<env, req, token, resps, result>>

Ready(r, op) == pc[r] = "ready" /\ req[r].op = op

list_branches(r) ==
    /\ Ready(r, "list_branches")
    /\ gh_request(r, "GET", RepoPath(req[r]) \o "/branches", PyNone, PyNone)

\* create_branch up to its first gh_request.
create_branch(r) ==
    /\ Ready(r, "create_branch")
    /\ gh_request(r, "GET", base_path(req[r]), PyNone, PyNone)

list_prs(r) ==
    /\ Ready(r, "list_prs")
    /\ gh_request(r, "GET", RepoPath(req[r]) \o "/pulls", PyNone,
                  list_prs_params(req[r].state))

create_pr(r) ==
    /\ Ready(r, "create_pr")
    /\ gh_request(r, "POST", RepoPath(req[r]) \o "/pulls",
                  create_pr_body(req[r].payload), PyNone)

get_pr(r) ==
    /\ Ready(r, "get_pr")
    /\ gh_request(r, "GET", PullPath(req[r]), PyNone, PyNone)

review_pr(r) ==
    /\ Ready(r, "review_pr")
    /\ gh_request(r, "POST", PullPath(req[r]) \o "/reviews",
                  review_pr_body(req[r].payload), PyNone)

merge_pr(r) ==
    /\ Ready(r, "merge_pr")
    /\ gh_request(r, "PUT", PullPath(req[r]) \o "/merge",
                  merge_pr_body(req[r].payload), PyNone)

get_contents(r) ==
    /\ Ready(r, "get_contents")
    /\ gh_request(r, "GET", RepoPath(req[r]) \o "/contents/" \o req[r].path, PyNone,
                  get_contents_params(req[r].ref))

\* The slot is blocked in the first gh_request of create_branch.
InFirstOfTwo(r) ==
    pc[r] = "in_gh_request" /\ req[r].op = "create_branch" /\ Len(calls[r]) = 1

\* The upstream answers a call whose outcome the handler returns as it is:
\* the single call of a one-call handler, or the POST of create_branch.
gh_request_return(r, I) ==
    /\ pc[r] = "in_gh_request" /\ ~InFirstOfTwo(r)
    /\ \E resp \in I.responses :
          /\ resps' = [resps EXCEPT ![r] = Append(@, resp)]
          /\ result' = [result EXCEPT ![r] = Returned(gh_request_result(resp))]
    /\ pc' = [pc EXCEPT ![r] = "done"]
    /\ UNCHANGED <<env, req, token, calls>>

\* The upstream answers the GET of create_branch; the handler runs on to
\* its end or to the POST.
create_branch_continue(r, I) ==
    /\ InFirstOfTwo(r)
    /\ \E resp \in I.responses :
          LET g == gh_request_result(resp)
              c == create_branch_resolve(req[r].payload, g.value)
          IN  /\ resps' = [resps EXCEPT ![r] = Append(@, resp)]
              /\ IF g.raised
                 THEN /\ result' = [result EXCEPT ![r] = g.exc]
                      /\ pc' = [pc EXCEPT ![r] = "done"]
                      /\ UNCHANGED calls
                 ELSE IF c.done
                      THEN /\ result' = [result EXCEPT ![r] = c.result]
                           /\ pc' = [pc EXCEPT ![r] = "done"]
                           /\ UNCHANGED calls
                      ELSE /\ calls' = [calls EXCEPT ![r] =
                                  Append(@, UpstreamCall("POST", ref_path(req[r]),
                                                         handler_token(r), c.json, PyNone))]
                           /\ UNCHANGED <<pc, result>>
    /\ UNCHANGED <<env, req, token>>

\* The response has been sent; everything of the request is dropped.
respond(r) ==
    /\ pc[r] = "done"
    /\ pc' = [pc EXCEPT ![r] = "idle"]
    /\ req' = [req EXCEPT ![r] = [op |-> "none"]]
    /\ token' = [token EXCEPT ![r] = <<>>]
    /\ calls' = [calls EXCEPT ![r] = <<>>]
    /\ resps' = [resps EXCEPT ![r] = <<>>]
    /\ result' = [result EXCEPT ![r] = NoResult]
    /\ UNCHANGED env

InitSlots(S, environ) ==
    /\ env \in environ
    /\ pc = [r \in S |-> "idle"]
    /\ req = [r \in S |-> [op |-> "none"]]
    /\ token = [r \in S |-> <<>>]
    /\ calls = [r \in S |-> <<>>]
    /\ resps = [r \in S |-> <<>>]
    /\ result = [r \in S |-> NoResult]

\* One request at a time, over the full inputs.
Init == InitSlots(OneSlot, EnvValues)

Next ==
    \E r \in OneSlot :
        \/ receive(r, FullInputs)
        \/ depends_get_token(r)
        \/ mcp_manifest(r)
        \/ health(r)
        \/ root(r)
        \/ list_branches(r)
        \/ create_branch(r)
        \/ list_prs(r)
        \/ create_pr(r)
        \/ get_pr(r)
        \/ review_pr(r)
        \/ merge_pr(r)
        \/ get_contents(r)
        \/ gh_request_return(r, FullInputs)
        \/ create_branch_continue(r, FullInputs)
        \/ respond(r)

Spec == Init /\ [][Next]_vars

\* Several requests in flight.
InitConc == InitSlots(ConcSlots, {PyNone, PyStr(EnvTok)})

NextConc ==
    \E r \in ConcSlots :
        \/ receive(r, ConcInputs)
        \/ depends_get_token(r)
        \/ mcp_manifest(r)
        \/ health(r)
        \/ root(r)
        \/ list_branches(r)
        \/ create_branch(r)
        \/ list_prs(r)
        \/ create_pr(r)
        \/ get_pr(r)
        \/ review_pr(r)
        \/ merge_pr(r)
        \/ get_contents(r)
        \/ gh_request_return(r, ConcInputs)
        \/ create_branch_continue(r, ConcInputs)
        \/ respond(r)

SpecConc == InitConc /\ [][NextConc]_vars

\* Credential resolution alone, over assembled header values.
InitToken ==
    /\ env \in EnvValues
    /\ pc = [r \in OneSlot |-> "routed"]
    /\ \E h \in TokenHeaders :
          req = [r \in OneSlot |-> [op |-> "list_branches", authorization |-> h,
                                owner |-> "acme", repo |-> "widget"]]
    /\ token = [r \in OneSlot |-> <<>>]
    /\ calls = [r \in OneSlot |-> <<>>]
    /\ resps = [r \in OneSlot |-> <<>>]
    /\ result = [r \in OneSlot |-> NoResult]

NextToken == \E r \in OneSlot : depends_get_token(r)

SpecToken == InitToken /\ [][NextToken]_vars

----------------------------------------------------------------------------
(* Properties *)

IsCreateBranch(r) == req[r].op = "create_branch"

\* The response body is JSON {"object": {"sha": s}} with s a non-empty string.
UsableSha(resp) ==
    /\ resp.body.json
    /\ resp.body.val.t = "dict"
    /\ "object" \in DOMAIN resp.body.val.d
    /\ resp.body.val.d["object"].t = "dict"
    /\ "sha" \in DOMAIN resp.body.val.d["object"].d
    /\ resp.body.val.d["object"].d["sha"].t = "str"
    /\ resp.body.val.d["object"].d["sha"].s # ""

ShaOf(resp) == resp.body.val.d["object"].d["sha"]

\* The GET of create_branch in slot r has been answered with success.
GetSucceeded(r) ==
    IsCreateBranch(r) /\ Len(resps[r]) >= 1 /\ resps[r][1].status_code < 400

\* The upstream body as an error carries it: the JSON, or the text under message.
ErrorBody(resp) ==
    IF resp.body.json THEN resp.body.val ELSE PyDict([message |-> PyStr(resp.body.text)])

\* The upstream body as a success returns it: the JSON, or the marker.
SuccessBody(resp) ==
    IF resp.body.json THEN resp.body.val ELSE PyDict([status |-> PyStr("ok")])

\* C1: in create_branch a POST is only ever issued as the second call, after
\* the GET was answered with a status below 400 and a non-empty object.sha;
\* when the GET failed or gave no usable SHA there is no POST.
C1_PostOnlyAfterSha ==
    \A r \in Slots :
        IsCreateBranch(r) =>
            /\ \A i \in 1..Len(calls[r]) :
                  calls[r][i].method = "POST" =>
                      /\ i = 2
                      /\ GetSucceeded(r)
                      /\ UsableSha(resps[r][1])
            /\ (Len(resps[r]) >= 1 /\ ~(GetSucceeded(r) /\ UsableSha(resps[r][1])))
                  => \A i \in 1..Len(calls[r]) : calls[r][i].method # "POST"

\* C1 witness: the POST has been issued after a GET that gave a SHA.
C1_Witness ==
    \E r \in Slots :
        /\ IsCreateBranch(r) /\ Len(calls[r]) = 2 /\ calls[r][2].method = "POST"
        /\ resps[r][1].status_code = 200 /\ UsableSha(resps[r][1])

\* C2: whenever the GET of create_branch succeeds with a body that lacks
\* object.sha, no POST is made and the handler fails with HTTP 500 and the
\* message "Could not resolve base branch SHA".
C2_MissingShaIs500 ==
    \A r \in Slots :
        (GetSucceeded(r) /\ ~UsableSha(resps[r][1])) =>
            /\ Len(calls[r]) = 1
            /\ pc[r] = "done"
            /\ result[r] = HTTPException(500, PyStr("Could not resolve base branch SHA"))

BranchRequestOver(r) ==
    pc[r] = "done" /\ GetSucceeded(r) /\ UsableSha(resps[r][1])

TwoCallsInOrder(r) ==
    /\ Len(calls[r]) = 2 /\ Len(resps[r]) = 2
    /\ calls[r][1].method = "GET"
    /\ calls[r][1].url = "https://api.github.com/repos/" \o req[r].owner \o "/"
                         \o req[r].repo \o "/git/ref/heads/"
                         \o req[r].payload.base_branch.s
    /\ calls[r][2].method = "POST"
    /\ calls[r][2].url = "https://api.github.com/repos/" \o req[r].owner \o "/"
                         \o req[r].repo \o "/git/refs"

\* C4 as stated: after a GET with a SHA, create_branch makes exactly the two
\* calls in order and the caller receives the POST's body and the POST's
\* status (an upstream 201 is seen as 201).
C4_PostStatusAndBody ==
    \A r \in Slots :
        BranchRequestOver(r) =>
            /\ TwoCallsInOrder(r)
            /\ result[r].status_code = resps[r][2].status_code
            /\ resps[r][2].body.json =>
                  (IF result[r].kind = "response"
                   THEN result[r].body ELSE result[r].detail) = resps[r][2].body.val

\* C4 amended: after a GET with a SHA, create_branch makes exactly the two
\* calls in order; a POST status >= 400 reaches the caller as an error with
\* that status and body, a POST status < 400 reaches the caller as the
\* POST's JSON body (or {status: "ok"}) with the route's status 200.
C4_PostOutcome ==
    \A r \in Slots :
        BranchRequestOver(r) =>
            /\ TwoCallsInOrder(r)
            /\ IF resps[r][2].status_code >= 400
               THEN result[r] = [kind |-> "HTTPException",
                                 status_code |-> resps[r][2].status_code,
                                 detail |-> ErrorBody(resps[r][2])]
               ELSE result[r] = [kind |-> "response", status_code |-> 200,
                                 body |-> SuccessBody(resps[r][2])]

\* C4 witness: the POST was answered 201 and the request is over.
C4_Witness ==
    \E r \in Slots :
        /\ BranchRequestOver(r) /\ Len(resps[r]) = 2
        /\ resps[r][2].status_code = 201 /\ resps[r][2].body.json
        /\ result[r].kind = "response"

\* C5: the POST of create_branch carries exactly {ref: "refs/heads/" +
\* new_branch, sha: S} with S the object.sha the GET of the same request
\* returned.
C5_PostBody ==
    \A r \in Slots :
        (IsCreateBranch(r) /\ Len(calls[r]) = 2) =>
            /\ calls[r][2].method = "POST"
            /\ calls[r][2].json =
                  PyDict([ref |-> PyStr("refs/heads/" \o req[r].payload.new_branch.s),
                          sha |-> ShaOf(resps[r][1])])

\* C5 witness: branch "fix" off "dev", whose GET returned def456.
C5_Witness ==
    \E r \in Slots :
        /\ IsCreateBranch(r) /\ Len(calls[r]) = 2
        /\ req[r].payload = [new_branch |-> PyStr("fix"), base_branch |-> PyStr("dev")]
        /\ ShaOf(resps[r][1]) = PyStr("def456")

\* The word equals "Bearer" up to the case of each letter.
IsBearerWord(w) ==
    /\ Len(w) = 6
    /\ w[1] \in {"B", "b"} /\ w[2] \in {"E", "e"} /\ w[3] \in {"A", "a"}
    /\ w[4] \in {"R", "r"} /\ w[5] \in {"E", "e"} /\ w[6] \in {"R", "r"}

HeaderGiven(h) == h.t = "str" /\ h.s # <<>>

\* The header is two whitespace-separated words, the first of them Bearer.
BearerForm(h) ==
    HeaderGiven(h) /\ Len(split(h.s)) = 2 /\ IsBearerWord(split(h.s)[1])

EnvGiven == env.t = "str" /\ env.s # <<>>

Resolved(r) == pc[r] \notin {"idle", "routed"} /\ req[r].op \notin NoAuthOps

\* C6: get_token resolves by strict precedence: a two-word header whose
\* first word is Bearer (in any case) gives its second word; any other
\* non-empty header gives the header verbatim whatever the environment
\* holds; without header the environment variable's non-empty value is the
\* token, and without that the request fails with 401 and the fixed detail.
C6_TokenPrecedence ==
    \A r \in Slots :
        Resolved(r) =>
            LET h == req[r].authorization
            IN  IF BearerForm(h)
                THEN pc[r] = "ready" /\ token[r] = split(h.s)[2]
                ELSE IF HeaderGiven(h)
                     THEN pc[r] = "ready" /\ token[r] = h.s
                     ELSE IF EnvGiven
                          THEN pc[r] = "ready" /\ token[r] = env.s
                          ELSE /\ pc[r] = "done"
                               /\ result[r] =
                                    [kind |-> "HTTPException", status_code |-> 401,
                                     detail |-> PyStr("GitHub token not provided via Authorization header or GITHUB_TOKEN env var")]

\* C6 witness: "bEARER<tab>t1" was resolved to t1 although GITHUB_TOKEN is set.
C6_Witness ==
    \E r \in Slots :
        /\ pc[r] = "ready" /\ EnvGiven
        /\ req[r].authorization = PyStr(<<"b", "E", "A", "R", "E", "R", "\t", "t", "1">>)
        /\ token[r] = Tok1

RepoOps ==
    {"list_branches", "list_prs", "create_pr", "get_pr", "review_pr", "merge_pr",
     "get_contents"}

\* C7: no upstream call is retried or repeated: a request to /mcp, /health
\* or /, or one whose credential resolution fails, makes no call;
\* create_branch makes at most two, every other repository endpoint exactly
\* one by the time it is over; a call is made only after the previous one
\* was answered, and none after an answer with status >= 400.
C7_CallCounts ==
    \A r \in Slots :
        /\ Len(resps[r]) <= Len(calls[r]) /\ Len(calls[r]) <= Len(resps[r]) + 1
        /\ req[r].op \in NoAuthOps \cup {"none"} => Len(calls[r]) = 0
        /\ (Resolved(r) /\ ~HeaderGiven(req[r].authorization) /\ ~EnvGiven)
              => Len(calls[r]) = 0 /\ pc[r] = "done"
        /\ IsCreateBranch(r) => Len(calls[r]) <= 2
        /\ req[r].op \in RepoOps =>
              /\ Len(calls[r]) <= 1
              /\ (pc[r] = "done" /\ (HeaderGiven(req[r].authorization) \/ EnvGiven))
                    => Len(calls[r]) = 1
        /\ \A i \in 1..Len(resps[r]) :
              resps[r][i].status_code >= 400 => Len(calls[r]) = i
        /\ \A i, j \in 1..Len(calls[r]) : i # j => calls[r][i] # calls[r][j]

\* C7 witness: create_branch is over after a 404 on its GET, with one call.
C7_Witness ==
    \E r \in Slots :
        /\ IsCreateBranch(r) /\ pc[r] = "done" /\ Len(calls[r]) = 1
        /\ resps[r][1].status_code = 404 /\ UsableSha(resps[r][1])

\* The token the request in slot r presents: header first, then environment.
OwnToken(r) ==
    LET h == req[r].authorization
    IN  IF BearerForm(h) THEN split(h.s)[2]
        ELSE IF HeaderGiven(h) THEN h.s ELSE env.s

\* C8: with requests in flight together, every upstream call carries
\* "Bearer " and the token of its own request, and two requests with the
\* same inputs and the same upstream responses have issued the same calls
\* and receive the same response, whatever the other slots hold.
C8_RequestScoped ==
    /\ \A r \in Slots :
          \A i \in 1..Len(calls[r]) :
              calls[r][i].headers.Authorization =
                  <<"B", "e", "a", "r", "e", "r", " ">> \o OwnToken(r)
    /\ \A r, q \in Slots :
          (pc[r] = pc[q] /\ req[r] = req[q] /\ resps[r] = resps[q]) =>
              /\ result[r] = result[q]
              /\ calls[r] = calls[q]

\* C8 witness: two requests with different tokens have both called upstream,
\* and their upstream responses differ.
C8_Witness ==
    \E r, q \in Slots :
        /\ r # q /\ Len(calls[r]) = 2 /\ Len(calls[q]) = 1
        /\ req[r].authorization = PyNone /\ req[q].authorization = PyStr(BearerTok1)
        /\ pc[q] = "done" /\ resps[q][1].status_code = 404

\* The gh_request whose value the handler returns has been answered.
ReturnedCall(r) ==
    /\ pc[r] = "done" /\ Len(resps[r]) >= 1
    /\ Len(resps[r]) = (IF IsCreateBranch(r) THEN 2 ELSE 1)

\* C9: on a status below 400 gh_request returns the parsed JSON body, or
\* {status: "ok"} when the body is no JSON, and does not fail: the caller
\* of a handler that returns gh_request's value receives exactly that, and
\* create_branch treats a non-JSON answer to its GET as a body without SHA.
C9_SuccessBody ==
    \A r \in Slots :
        /\ (ReturnedCall(r) /\ resps[r][Len(resps[r])].status_code < 400) =>
              /\ result[r].kind = "response"
              /\ result[r].body = SuccessBody(resps[r][Len(resps[r])])
        /\ (GetSucceeded(r) /\ ~resps[r][1].body.json) =>
              /\ result[r] = HTTPException(500, PyStr("Could not resolve base branch SHA"))
              /\ Len(calls[r]) = 1

\* C9 witness: list_branches was answered 200 with an empty body.
C9_Witness ==
    \E r \in Slots :
        /\ req[r].op = "list_branches" /\ pc[r] = "done"
        /\ resps[r] = <<[status_code |-> 200, body |-> TextBody("")]>>
        /\ result[r].body = PyDict([status |-> PyStr("ok")])

ContentsCalled(r) == req[r].op = "get_contents" /\ Len(calls[r]) = 1

\* C10 as stated: get_contents sends no ref parameter when the caller gave
\* none, and sends exactly the caller's value whenever the caller gave one.
C10_RefAsSupplied ==
    \A r \in Slots :
        ContentsCalled(r) =>
            IF req[r].ref = PyNone
            THEN calls[r][1].params = PyNone
            ELSE calls[r][1].params = PyDict([ref |-> req[r].ref])

\* C10 amended: get_contents sends no ref parameter when the caller gave none
\* or gave an empty one (never ref=""), and sends exactly the caller's value
\* when that value is non-empty.
C10_RefWhenNonEmpty ==
    \A r \in Slots :
        ContentsCalled(r) =>
            /\ calls[r][1].method = "GET"
            /\ calls[r][1].url = "https://api.github.com/repos/" \o req[r].owner \o "/"
                                 \o req[r].repo \o "/contents/" \o req[r].path
            /\ IF req[r].ref = PyNone \/ req[r].ref = PyStr("")
               THEN calls[r][1].params = PyNone
               ELSE calls[r][1].params = PyDict([ref |-> req[r].ref])

\* C10 witness: a contents call went out for a request with ref=dev.
C10_Witness ==
    \E r \in Slots :
        /\ ContentsCalled(r) /\ req[r].ref = PyStr("dev")
        /\ calls[r][1].params = PyDict([ref |-> PyStr("dev")])

====
